---- MODULE Spec2Model ----
(***************************************************************************)
(* State-machine model of three components of the Lumi application:        *)
(*   - the sign-in form        (front/src/components/Forms/SignIn.tsx)     *)
(*   - the profile form        (unnamed/part_000, ProfileForm)             *)
(*   - the billet router       (back/src/modules/billet/billet.routes.ts)  *)
(* Each component has its own specification (SignInSpec, ProfileSpec,      *)
(* RouterSpec); the variables of the other components stay unchanged.      *)
(***************************************************************************)
EXTENDS Integers, Sequences, FiniteSets, TLC

VARIABLES
    \* ---- sign-in form (SignIn.tsx)
    isSubmitting,     \* useState(false), line 25
    siError,          \* useState(''), line 24 ("error" of SignInForm)
    location,         \* the page shown; router.replace changes it
    recaptcha,        \* state of the invisible reCAPTCHA widget
    attempts,         \* one record per invocation of handleSignIn
    signInCalls,      \* arguments of every signIn('user-login', ...) call made
    \* ---- billet router (billet.routes.ts)
    rtReq,            \* the request being dispatched, or NoRequest
    rtPc,             \* idle | layer | handler | done
    rtLayer,          \* index in the router's stack of the layer looked at
    rtHandler,        \* index of the handler to run within the matched route
    rtLog,            \* the handlers invoked for rtReq, in order
    rtFile,           \* req.file as set by the upload middleware
    rtOutcome,        \* how the dispatch of rtReq ended
    \* ---- profile form (ProfileForm)
    pfName,           \* watch('name')
    pfEmail,          \* watch('email')
    preview,          \* useState(placeholder), line 28
    selectedFile,     \* useState(null), line 30
    pfError,          \* useState(null), line 31
    pfSuccess,        \* useState(null), line 32
    initialData,      \* useState(null), line 33
    data,             \* useQuery(...).data, line 38
    reads,            \* FileReader reads started and not yet ended
    mutation,         \* the useMutation state: NoMutation or the pending request
    updates,          \* every update request sent, with the form state at that time
    serverProfile,    \* the profile held by the user-profile API
    errorTimer,       \* ms left on the error effect's setTimeout, or NoTimer
    successTimer,     \* ms left on the success effect's setTimeout, or NoTimer
    errorShownMs,     \* ms since the last setError(message) call
    selections,       \* number of image selections made
    lastSelected,     \* the file the user selected last (Null: none)
    lastLoaded        \* data URI of the image loaded most recently (Null: none)

signInVars == <<isSubmitting, siError, location, recaptcha, attempts, signInCalls>>

routerVars == <<rtReq, rtPc, rtLayer, rtHandler, rtLog, rtFile, rtOutcome>>

profileVars == <<pfName, pfEmail, preview, selectedFile, pfError, pfSuccess,
                 initialData, data, reads, mutation, updates, serverProfile,
                 errorTimer, successTimer, errorShownMs,
                 selections, lastSelected, lastLoaded>>

vars == <<signInVars, routerVars, profileVars>>

(***************************************************************************)
(* JavaScript values.                                                      *)
(***************************************************************************)
Undefined == [type |-> "undefined"]
Null      == [type |-> "null"]
Str(s)    == [type |-> "string", value |-> s]

\* JavaScript truthiness, as used by `!recaptchaToken` and `response?.error`.
Truthy(v) ==
    CASE v.type = "undefined" -> FALSE
      [] v.type = "null"      -> FALSE
      [] v.type = "string"    -> v.value # ""
      [] OTHER                -> TRUE

(***************************************************************************)
(*                              SIGN-IN FORM                               *)
(***************************************************************************)
MaxAttempts == 3

SignInPage == "/sign-in"
HomePage   == "/user/home"

CaptchaFailedMsg == "Falha na verificacao de seguranca. Por favor, tente novamente."
SignInFailedMsg  == "Falha ao entrar. Por favor, tente novamente."

\* What executeAsync() of a mounted widget can resolve to.
CaptchaResults == {Undefined, Null, Str(""), Str("tok1"), Str("tok2")}

\* The form data that passed react-hook-form's validation.
SignInDatas == {[email |-> "a@x.io", password |-> "p1"],
                [email |-> "b@x.io", password |-> "p2"]}

\* What signIn(..., {redirect: false}) can resolve to.
SignInResponses ==
    {Undefined,
     [type |-> "object", error |-> Undefined],
     [type |-> "object", error |-> Null],
     [type |-> "object", error |-> Str("")],
     [type |-> "object", error |-> Str("CredentialsSignin")]}

\* response?.error
ErrorOf(response) ==
    IF response.type = "object" THEN response.error ELSE Undefined

\* <SubmitButton isSubmitting={isSubmitting}/>: disabled={isSubmitting}
SubmitButtonDisabled_NeverDisabled == FALSE
SubmitButtonDisabled == isSubmitting

\* if (!recaptchaToken)
TokenMissing_OnlyUndefined(tok) == tok = Undefined
TokenMissing(tok) == ~Truthy(tok)

\* if (response?.error)
ResponseHasError_Ignored(response) == FALSE
ResponseHasError(response) == Truthy(ErrorOf(response))

\* finally { setIsSubmitting(false) }
FinallyIsSubmitting_Forgotten == isSubmitting
FinallyIsSubmitting == FALSE

InFlight(a) == a.pc \in {"captcha", "signIn"}

NewAttempt(formData, mounted) ==
    [pc         |-> "captcha",
     data       |-> formData,
     mounted    |-> mounted,      \* recaptchaRef.current is not null
     captcha    |-> "pending",    \* how executeAsync() settled
     token      |-> Undefined,    \* const recaptchaToken
     signIn     |-> "none",       \* none: signIn was not called
     signInArg  |-> Undefined,    \* the recaptchaToken passed to signIn
     response   |-> Undefined,    \* const response
     errorsSet  |-> 0,            \* number of setError calls of this attempt
     lastError  |-> "",
     redirected |-> FALSE]        \* router.replace('/user/home') was called

\* The user submits the form: handleSubmit(handleSignIn) runs handleSignIn up
\* to its first await (setIsSubmitting(true); executeAsync()).
SubmitSignIn(formData, mounted) ==
    /\ location = SignInPage
    /\ ~SubmitButtonDisabled
    /\ Len(attempts) < MaxAttempts
    /\ isSubmitting' = TRUE
    /\ recaptcha' = IF mounted THEN "executing" ELSE recaptcha
    /\ attempts' = Append(attempts, NewAttempt(formData, mounted))
    /\ UNCHANGED <<siError, location, signInCalls>>
    /\ UNCHANGED <<routerVars, profileVars>>

\* executeAsync() settles with tok (undefined when the ref is not mounted);
\* handleSignIn runs from line 39 to its next await or to its end.
CaptchaResolve(i, tok) ==
    /\ i \in 1..Len(attempts)
    /\ attempts[i].pc = "captcha"
    /\ attempts[i].mounted \/ tok = Undefined
    /\ recaptcha' = IF attempts[i].mounted THEN "idle" ELSE recaptcha   \* reset()
    /\ IF TokenMissing(tok)
         THEN /\ siError' = CaptchaFailedMsg
              /\ isSubmitting' = FinallyIsSubmitting
              /\ attempts' = [attempts EXCEPT ![i] =
                     [@ EXCEPT !.pc = "done", !.captcha = "resolved",
                               !.token = tok,
                               !.errorsSet = @ + 1,
                               !.lastError = CaptchaFailedMsg]]
              /\ UNCHANGED <<location, signInCalls>>
         ELSE /\ attempts' = [attempts EXCEPT ![i] =
                     [@ EXCEPT !.pc = "signIn", !.captcha = "resolved",
                               !.token = tok,
                               !.signIn = "pending", !.signInArg = tok]]
              /\ signInCalls' = Append(signInCalls,
                     [provider |-> "user-login", attempt |-> i,
                      email |-> attempts[i].data.email,
                      password |-> attempts[i].data.password,
                      recaptchaToken |-> tok, redirect |-> FALSE])
              /\ UNCHANGED <<siError, isSubmitting, location>>
    /\ UNCHANGED <<routerVars, profileVars>>

\* catch (err) { setError('Falha ao entrar...') } finally { ... }
CatchAndFinally(i, thrower) ==
    /\ siError' = SignInFailedMsg
    /\ isSubmitting' = FinallyIsSubmitting
    /\ attempts' = [attempts EXCEPT ![i] =
           [@ EXCEPT !.pc = "done", ![thrower] = "rejected",
                     !.errorsSet = @ + 1,
                     !.lastError = SignInFailedMsg]]

\* executeAsync() rejects (or reset() throws): the catch block runs.
CaptchaReject(i) ==
    /\ i \in 1..Len(attempts)
    /\ attempts[i].pc = "captcha"
    /\ attempts[i].mounted
    /\ recaptcha' = "idle"
    /\ CatchAndFinally(i, "captcha")
    /\ UNCHANGED <<location, signInCalls>>
    /\ UNCHANGED <<routerVars, profileVars>>

\* signIn resolves with response; handleSignIn runs from line 53 to its end.
SignInResolve(i, response) ==
    /\ i \in 1..Len(attempts)
    /\ attempts[i].pc = "signIn"
    /\ IF ResponseHasError(response)
         THEN /\ siError' = ErrorOf(response).value
              /\ attempts' = [attempts EXCEPT ![i] =
                     [@ EXCEPT !.pc = "done", !.signIn = "resolved",
                               !.response = response,
                               !.errorsSet = @ + 1,
                               !.lastError = ErrorOf(response).value]]
              /\ UNCHANGED location
         ELSE /\ location' = HomePage
              /\ attempts' = [attempts EXCEPT ![i] =
                     [@ EXCEPT !.pc = "done", !.signIn = "resolved",
                               !.response = response,
                               !.redirected = TRUE]]
              /\ UNCHANGED siError
    /\ isSubmitting' = FinallyIsSubmitting
    /\ UNCHANGED <<recaptcha, signInCalls>>
    /\ UNCHANGED <<routerVars, profileVars>>

\* signIn rejects (network failure): the catch block runs.
SignInReject(i) ==
    /\ i \in 1..Len(attempts)
    /\ attempts[i].pc = "signIn"
    /\ CatchAndFinally(i, "signIn")
    /\ UNCHANGED <<location, recaptcha, signInCalls>>
    /\ UNCHANGED <<routerVars, profileVars>>

\* {error && <PopUpError message={error} onClose={() => setError('')} />}
CloseSignInError ==
    /\ siError # ""
    /\ siError' = ""
    /\ UNCHANGED <<isSubmitting, location, recaptcha, attempts, signInCalls>>
    /\ UNCHANGED <<routerVars, profileVars>>

SignInInit ==
    /\ isSubmitting = FALSE
    /\ siError = ""
    /\ location = SignInPage
    /\ recaptcha = "idle"
    /\ attempts = <<>>
    /\ signInCalls = <<>>

SignInNext ==
    \/ \E d \in SignInDatas, m \in BOOLEAN : SubmitSignIn(d, m)
    \/ \E i \in 1..MaxAttempts, tok \in CaptchaResults : CaptchaResolve(i, tok)
    \/ \E i \in 1..MaxAttempts : CaptchaReject(i)
    \/ \E i \in 1..MaxAttempts, r \in SignInResponses : SignInResolve(i, r)
    \/ \E i \in 1..MaxAttempts : SignInReject(i)
    \/ CloseSignInError


(***************************************************************************)
(* Claims about the sign-in form.                                          *)
(***************************************************************************)
AttemptIds == 1..Len(attempts)

\* The attempt's captcha execution returned no token.
NoToken(a) == a.captcha = "resolved" /\ (a.token \in {Undefined, Null, Str("")})

\* signIn returned a response that carries an error.
ErrorResponse(a) ==
    /\ a.signIn = "resolved"
    /\ a.response.type = "object"
    /\ a.response.error.type = "string"
    /\ a.response.error.value # ""

\* The captcha execution or the signIn call threw.
Threw(a) == a.captcha = "rejected" \/ a.signIn = "rejected"

Failed(a) == NoToken(a) \/ ErrorResponse(a) \/ Threw(a)

\* C1: signIn('user-login', ...) is never invoked in an attempt whose
\* reCAPTCHA execution returned no token (undefined, null or empty, or the
\* widget ref not mounted); every sign-in call that is made carries the
\* non-empty token obtained in that same attempt.
C1_NoSignInWithoutToken ==
    /\ \A i \in AttemptIds :
          (NoToken(attempts[i]) \/ ~attempts[i].mounted)
              => /\ attempts[i].signIn = "none"
                 /\ \A k \in 1..Len(signInCalls) : signInCalls[k].attempt # i
    /\ \A k \in 1..Len(signInCalls) :
          LET c == signInCalls[k] IN
          /\ c.attempt \in AttemptIds
          /\ c.recaptchaToken.type = "string"
          /\ c.recaptchaToken.value # ""
          /\ attempts[c.attempt].captcha = "resolved"
          /\ c.recaptchaToken = attempts[c.attempt].token

C1_Witness ==
    /\ \E i \in AttemptIds : NoToken(attempts[i]) /\ attempts[i].pc = "done"
    /\ \E i \in AttemptIds : ~attempts[i].mounted /\ attempts[i].pc = "done"
    /\ Len(signInCalls) >= 1

\* C2: when an attempt finishes having failed in one of the three ways (no
\* captcha token, a response with an error, captcha/signIn threw), exactly
\* one error message was set for it, the message is non-empty and is the one
\* shown, isSubmitting is false again and no redirect was performed.
C2_FailureHandled ==
    [][\A i \in AttemptIds :
          (InFlight(attempts[i]) /\ ~InFlight(attempts'[i]) /\ Failed(attempts'[i]))
              => /\ attempts'[i].errorsSet = 1
                 /\ attempts'[i].lastError # ""
                 /\ siError' = attempts'[i].lastError
                 /\ isSubmitting' = FALSE
                 /\ ~attempts'[i].redirected
                 /\ location' = location]_vars

C2_Witness ==
    /\ \E i \in AttemptIds : attempts[i].pc = "done" /\ NoToken(attempts[i])
    /\ \E i \in AttemptIds : attempts[i].pc = "done" /\ ErrorResponse(attempts[i])
    /\ \E i \in AttemptIds : attempts[i].pc = "done" /\ Threw(attempts[i])
    /\ ~isSubmitting

\* The attempt obtained a captcha token and signIn returned without an error.
Succeeded(a) ==
    /\ a.captcha = "resolved" /\ ~NoToken(a)
    /\ a.signIn = "resolved" /\ ~ErrorResponse(a)

\* C3: the redirect to '/user/home' is performed if and only if the attempt
\* obtained a captcha token and signIn returned without an error; it happens
\* only once signIn has resolved, and after a successful attempt isSubmitting
\* is false again.
C3_RedirectIffSuccess ==
    /\ [](\A i \in AttemptIds :
            /\ attempts[i].redirected <=> Succeeded(attempts[i])
            /\ attempts[i].redirected => attempts[i].signIn = "resolved")
    /\ []((location = HomePage) <=> (\E i \in AttemptIds : attempts[i].redirected))
    /\ [][location' # location =>
            /\ location' = HomePage
            /\ \E i \in AttemptIds :
                  /\ attempts[i].pc = "signIn"
                  /\ attempts'[i].signIn = "resolved"
                  /\ Succeeded(attempts'[i])
            /\ isSubmitting' = FALSE]_vars

C3_Witness ==
    /\ location = HomePage
    /\ ~isSubmitting
    /\ \E i \in AttemptIds : attempts[i].redirected /\ attempts[i].response = Undefined
    /\ \E i \in AttemptIds : attempts[i].pc = "done" /\ ~attempts[i].redirected

\* C9: at most one sign-in attempt is in flight at any time: isSubmitting is
\* true exactly from the start of handleSignIn until it finishes, the submit
\* button is disabled exactly while isSubmitting is true, and no second
\* captcha execution or signIn call starts while one is pending.
C9_OneAttemptInFlight ==
    /\ Cardinality({i \in AttemptIds : InFlight(attempts[i])}) <= 1
    /\ isSubmitting <=> (\E i \in AttemptIds : InFlight(attempts[i]))
    /\ SubmitButtonDisabled <=> isSubmitting
    /\ \A i \in AttemptIds : InFlight(attempts[i]) => i = Len(attempts)

C9_Witness ==
    /\ Len(attempts) >= 2
    /\ attempts[Len(attempts)].pc = "signIn"
    /\ attempts[1].pc = "done"
    /\ isSubmitting

(***************************************************************************)
(*                              BILLET ROUTER                              *)
(* billetRouter is an Express Router holding four routes, in registration  *)
(* order.  A request walks the stack; a layer matches on the path, a route *)
(* runs the handlers registered for the request's method.                  *)
(***************************************************************************)
MaxPathLen == 3

Methods == {"GET", "POST", "DELETE", "HEAD", "PUT", "PATCH", "OPTIONS"}

\* Path segments requests are built from (upper case: routing is
\* case-insensitive by default).
Segments == {"billet", "BILLET", "download", "x", "42"}

\* The lower-case form of a segment.
Lower(seg) == IF seg = "BILLET" THEN "billet" ELSE seg

\* What the multipart body of a request holds, as upload.single('file') sees it.
Bodies == {"none", "multipart:file", "multipart:other"}

NoRequest == [method |-> "none"]

\* The paths of at most MaxPathLen segments.
Paths == UNION {[1..n -> Segments] : n \in 0..MaxPathLen}

Requests ==
    [method : Methods, segs : Paths, slash : BOOLEAN, body : Bodies]

Lit(s)   == [param |-> FALSE, text |-> s]
Param(n) == [param |-> TRUE, text |-> n]

\* upload.single('file') of multer({ storage: multer.memoryStorage() })
UploadSingleFile == [kind |-> "middleware", name |-> "upload.single", field |-> "file",
                     storage |-> "memory"]

Controller(m) == [kind |-> "controller", name |-> m]

\* billetRouter.get(...).post(...).get(...).delete(...): one route per call.
BilletRoutes_DeleteAsGet ==
    << [method |-> "GET", path |-> <<Lit("billet")>>,
        handlers |-> <<Controller("getAllBilletsByUserId")>>],
       [method |-> "POST", path |-> <<Lit("billet")>>,
        handlers |-> <<UploadSingleFile, Controller("uploadBillet")>>],
       [method |-> "GET", path |-> <<Lit("billet"), Lit("download"), Param("fileName")>>,
        handlers |-> <<Controller("getDownloadUrl")>>],
       [method |-> "GET", path |-> <<Lit("billet"), Param("id")>>,
        handlers |-> <<Controller("deleteBillet")>>] >>
BilletRoutes ==
    << [method |-> "GET", path |-> <<Lit("billet")>>,
        handlers |-> <<Controller("getAllBilletsByUserId")>>],
       [method |-> "POST", path |-> <<Lit("billet")>>,
        handlers |-> <<UploadSingleFile, Controller("uploadBillet")>>],
       [method |-> "GET", path |-> <<Lit("billet"), Lit("download"), Param("fileName")>>,
        handlers |-> <<Controller("getDownloadUrl")>>],
       [method |-> "DELETE", path |-> <<Lit("billet"), Param("id")>>,
        handlers |-> <<Controller("deleteBillet")>>] >>

\* Express path matching (non-strict, case-insensitive, anchored at the end):
\* as many segments as the pattern, literals equal, a parameter takes any
\* one segment; a trailing slash is ignored.
PathMatches(pattern, segs) ==
    /\ Len(pattern) = Len(segs)
    /\ \A k \in 1..Len(pattern) :
          pattern[k].param \/ Lower(segs[k]) = pattern[k].text

\* Route.prototype._handles_method: HEAD falls back to the GET handlers of a
\* route that registers no HEAD handler.
EffectiveMethod(route, method) ==
    IF method = "HEAD" /\ route.method # "HEAD" THEN "GET" ELSE method

HandlesMethod(route, method) == route.method = EffectiveMethod(route, method)

\* A request arrives at the router.
Receive ==
    /\ rtPc = "idle"
    /\ \E req \in Requests : rtReq' = req
    /\ rtPc' = "layer"
    /\ rtLayer' = 1
    /\ rtHandler' = 0
    /\ rtLog' = <<>>
    /\ rtFile' = "none"
    /\ rtOutcome' = "pending"
    /\ UNCHANGED <<signInVars, profileVars>>

\* The router looks at the layer rtLayer: it enters the route when the path
\* and the method match, goes on to the next layer otherwise, and leaves the
\* request to the framework default when the stack is exhausted.
RouterNext ==
    /\ rtPc = "layer"
    /\ UNCHANGED <<rtReq, rtLog, rtFile>>
    /\ IF rtLayer > Len(BilletRoutes)
         THEN /\ rtPc' = "done"
              /\ rtOutcome' = IF rtReq.method = "OPTIONS"
                                   /\ \E k \in 1..Len(BilletRoutes) :
                                         PathMatches(BilletRoutes[k].path, rtReq.segs)
                                THEN "optionsResponse" ELSE "unhandled"
              /\ UNCHANGED <<rtLayer, rtHandler>>
         ELSE IF /\ PathMatches(BilletRoutes[rtLayer].path, rtReq.segs)
                 /\ HandlesMethod(BilletRoutes[rtLayer], rtReq.method)
                THEN /\ rtPc' = "handler"
                     /\ rtHandler' = 1
                     /\ UNCHANGED <<rtLayer, rtOutcome>>
                ELSE /\ rtLayer' = rtLayer + 1
                     /\ UNCHANGED <<rtPc, rtHandler, rtOutcome>>
    /\ UNCHANGED <<signInVars, profileVars>>

\* upload.single('file') runs: it buffers the file of field 'file' in memory
\* and calls next(), or calls next(err) on a file in another field.
RunMiddleware ==
    /\ rtPc = "handler"
    /\ rtHandler <= Len(BilletRoutes[rtLayer].handlers)
    /\ BilletRoutes[rtLayer].handlers[rtHandler].kind = "middleware"
    /\ rtLog' = Append(rtLog, BilletRoutes[rtLayer].handlers[rtHandler].name)
    /\ UNCHANGED <<rtReq, rtLayer>>
    /\ CASE rtReq.body = "multipart:file" ->
              /\ rtFile' = "memoryBuffer"
              /\ rtHandler' = rtHandler + 1
              /\ UNCHANGED <<rtPc, rtOutcome>>
         [] rtReq.body = "multipart:other" ->
              /\ rtPc' = "done"
              /\ rtOutcome' = "error"
              /\ UNCHANGED <<rtFile, rtHandler>>
         [] OTHER ->
              /\ rtHandler' = rtHandler + 1
              /\ UNCHANGED <<rtPc, rtOutcome, rtFile>>
    /\ UNCHANGED <<signInVars, profileVars>>

\* (req, res) => billetController.<method>(req, res): the controller answers
\* and does not call next().
RunController ==
    /\ rtPc = "handler"
    /\ rtHandler <= Len(BilletRoutes[rtLayer].handlers)
    /\ BilletRoutes[rtLayer].handlers[rtHandler].kind = "controller"
    /\ rtLog' = Append(rtLog, BilletRoutes[rtLayer].handlers[rtHandler].name)
    /\ rtPc' = "done"
    /\ rtOutcome' = "handled"
    /\ UNCHANGED <<rtReq, rtLayer, rtHandler, rtFile>>
    /\ UNCHANGED <<signInVars, profileVars>>

\* The response is out; the router is ready for the next request.
Respond ==
    /\ rtPc = "done"
    /\ rtReq' = NoRequest
    /\ rtPc' = "idle"
    /\ rtLayer' = 0
    /\ rtHandler' = 0
    /\ rtLog' = <<>>
    /\ rtFile' = "none"
    /\ rtOutcome' = "none"
    /\ UNCHANGED <<signInVars, profileVars>>

RouterInit ==
    /\ rtReq = NoRequest
    /\ rtPc = "idle"
    /\ rtLayer = 0
    /\ rtHandler = 0
    /\ rtLog = <<>>
    /\ rtFile = "none"
    /\ rtOutcome = "none"

RouterNextStep ==
    \/ Receive
    \/ RouterNext
    \/ RunMiddleware
    \/ RunController
    \/ Respond

(***************************************************************************)
(* Claims about the billet router.                                         *)
(***************************************************************************)
ControllerMethods ==
    {"getAllBilletsByUserId", "uploadBillet", "getDownloadUrl", "deleteBillet"}

\* The controller methods invoked for the current request, in order.
Invoked == SelectSeq(rtLog, LAMBDA h : h \in ControllerMethods)

IsBillet(req)   == Len(req.segs) = 1 /\ Lower(req.segs[1]) = "billet"
IsDownload(req) == /\ Len(req.segs) = 3 /\ Lower(req.segs[1]) = "billet"
                   /\ Lower(req.segs[2]) = "download"
IsBilletId(req) == Len(req.segs) = 2 /\ Lower(req.segs[1]) = "billet"

\* The routing table as the claim states it.
Table(req) ==
    CASE req.method = "GET"    /\ IsBillet(req)   -> "getAllBilletsByUserId"
      [] req.method = "POST"   /\ IsBillet(req)   -> "uploadBillet"
      [] req.method = "GET"    /\ IsDownload(req) -> "getDownloadUrl"
      [] req.method = "DELETE" /\ IsBilletId(req) -> "deleteBillet"
      [] OTHER -> "none"

\* The routing table with HEAD served by the GET routes.
TableWithHead(req) ==
    IF req.method = "HEAD" THEN Table([req EXCEPT !.method = "GET"]) ELSE Table(req)

\* The upload middleware runs on POST /billet only, and before uploadBillet.
UploadOnlyOnPost ==
    /\ \A k \in 1..Len(rtLog) :
          rtLog[k] = "upload.single" => (rtReq.method = "POST" /\ IsBillet(rtReq) /\ k = 1)
    /\ \A k \in 1..Len(rtLog) :
          rtLog[k] = "uploadBillet" => (k = 2 /\ rtLog[1] = "upload.single")
    /\ rtFile # "none" => (rtReq.method = "POST" /\ IsBillet(rtReq)
                            /\ rtFile = "memoryBuffer" /\ rtReq.body = "multipart:file")

DispatchedPer(table) ==
    /\ Len(Invoked) <= 1
    /\ \A k \in 1..Len(Invoked) : Invoked[k] = table
    /\ (rtPc = "done" /\ rtOutcome # "error") =>
          (IF table = "none" THEN Invoked = <<>> ELSE Invoked = <<table>>)

\* C7 (as stated): every request (verb, path) is dispatched to at most one
\* controller method, exactly per the table GET /billet, POST /billet,
\* GET /billet/download/:fileName, DELETE /billet/:id; no other verb on these
\* paths reaches a controller method; the upload middleware runs on
\* POST /billet only and before uploadBillet.
C7_Original_DispatchPerTable ==
    rtPc # "idle" => (DispatchedPer(Table(rtReq)) /\ UploadOnlyOnPost)

\* C7 (amended): as above, except that a HEAD request is served by the GET
\* route of its path (HEAD /billet -> getAllBilletsByUserId,
\* HEAD /billet/download/:fileName -> getDownloadUrl).
C7_DispatchPerTableWithHead ==
    rtPc # "idle" => (DispatchedPer(TableWithHead(rtReq)) /\ UploadOnlyOnPost)

C7_Witness ==
    /\ rtPc = "done"
    /\ rtReq.method = "HEAD"
    /\ IsDownload(rtReq)
    /\ rtLog = <<"getDownloadUrl">>

(***************************************************************************)
(*                              PROFILE FORM                               *)
(***************************************************************************)
MaxSelections == 2
MaxUpdates    == 2

\* setTimeout(..., 5000)
DismissMs == 5000
\* The step by which the model advances time.
TickMs    == 2500
NoTimer   == -1

\* file.size > 5000 * 1024
ImageSizeCap == 5000 * 1024

ImageTooBigMsg   == Str("Image size should not exceed 5mb")
UpdateFailedMsg  == Str("Failed to update profile")
UpdateSuccessMsg == Str("Profile updated successfully")

\* A picture value: a string that is a URL/path or a data URI.
Placeholder ==
    [type |-> "string", value |-> "/assets/icons/profile-default-placeholder.png",
     scheme |-> "path", bytes |-> 0]
ServerUrlPic ==
    [type |-> "string", value |-> "https://cdn/u1.png", scheme |-> "https", bytes |-> 0]

\* The files the user can pick: far below the cap, exactly at the cap
\* (5000 KiB = 5,120,000 bytes) and exactly 5 MiB (5,242,880 bytes).
Files ==
    {[name |-> "small.png",  size |-> 1024],
     [name |-> "cap.png",    size |-> 5120000],
     [name |-> "5mib.png",   size |-> 5242880]}

\* reader.readAsDataURL(file): the file's content as a base64 data URI.
DataURL(file) ==
    [type |-> "string", value |-> file.name, scheme |-> "data", bytes |-> file.size]

\* a || b
Or(a, b) == IF Truthy(a) THEN a ELSE b

Names  == {"Ann", "Bob"}
Emails == {"", "ann@x.io"}

UserId == "u1"

Profile(n, e, pic) ==
    [type |-> "object", id |-> UserId, name |-> n, email |-> e, profilePicture |-> pic]

NoMutation == [status |-> "idle"]

\* useMutation(...).isPending
IsPending == mutation.status = "pending"

\* isFormChanged(), lines 115-120
IsFormChanged ==
    IF initialData = Null THEN FALSE
    ELSE \/ pfName # initialData.name
         \/ pfEmail # initialData.email
         \/ selectedFile # Null

\* <SubmitButton isPending={isPending} isDisabled={!data || !isFormChanged()}/>
\* disabled={isPending || isDisabled}
ProfileSubmitDisabled == IsPending \/ ~Truthy(data) \/ ~IsFormChanged

\* The {required} rule of the name and email fields.
FieldsValid == pfName # "" /\ pfEmail # ""

\* file.size > 5000 * 1024
TooBig(file) == file.size > ImageSizeCap

\* setError(msg) followed by the effect on [error] (lines 53-58): a changed
\* truthy value clears the running timer and starts one; an unchanged value
\* re-renders nothing and leaves the running timer alone.
SetError(msg) ==
    /\ pfError' = msg
    /\ errorTimer' = IF msg = pfError THEN errorTimer
                     ELSE IF Truthy(msg) THEN 0 ELSE NoTimer
    /\ errorShownMs' = 0

\* setSuccess(msg) followed by the effect on [success] (lines 60-65).
SetSuccess(msg) ==
    /\ pfSuccess' = msg
    /\ successTimer' = IF msg = pfSuccess THEN successTimer
                       ELSE IF Truthy(msg) THEN 0 ELSE NoTimer

errorVars   == <<pfError, errorTimer, errorShownMs>>
successVars == <<pfSuccess, successTimer>>
historyVars == <<selections, lastSelected, lastLoaded>>

\* The query (re)fetches the profile; when the data changed, the effect on
\* [data] resets name, email, preview and initialData (lines 44-51).
FetchProfile ==
    /\ data' = serverProfile
    /\ IF data' # data
         THEN /\ pfName' = data'.name
              /\ pfEmail' = data'.email
              /\ preview' = Or(data'.profilePicture, Placeholder)
              /\ initialData' = data'
         ELSE UNCHANGED <<pfName, pfEmail, preview, initialData>>
    /\ UNCHANGED <<selectedFile, reads, mutation, updates, serverProfile>>
    /\ UNCHANGED <<errorVars, successVars, historyVars>>
    /\ UNCHANGED <<signInVars, routerVars>>

\* The user types into the name field.
EditName(n) ==
    /\ n # pfName
    /\ pfName' = n
    /\ UNCHANGED <<pfEmail, preview, selectedFile, initialData, data, reads,
                   mutation, updates, serverProfile>>
    /\ UNCHANGED <<errorVars, successVars, historyVars>>
    /\ UNCHANGED <<signInVars, routerVars>>

\* The user types into the email field.
EditEmail(e) ==
    /\ e # pfEmail
    /\ pfEmail' = e
    /\ UNCHANGED <<pfName, preview, selectedFile, initialData, data, reads,
                   mutation, updates, serverProfile>>
    /\ UNCHANGED <<errorVars, successVars, historyVars>>
    /\ UNCHANGED <<signInVars, routerVars>>

\* handleImageChange, lines 67-84, up to reader.readAsDataURL(file).
HandleImageChange(file) ==
    /\ selections < MaxSelections
    /\ selections' = selections + 1
    /\ lastSelected' = file
    /\ IF TooBig(file)
         THEN /\ SetError(ImageTooBigMsg)
              /\ UNCHANGED reads
         ELSE /\ reads' = reads \cup {[id |-> selections + 1, file |-> file]}
              /\ UNCHANGED errorVars
    /\ UNCHANGED <<pfName, pfEmail, preview, selectedFile, initialData, data,
                   mutation, updates, serverProfile, lastLoaded>>
    /\ UNCHANGED successVars
    /\ UNCHANGED <<signInVars, routerVars>>

\* reader.onloadend, lines 77-81: fires when the read ended, with the data
\* URI in reader.result on success and null on a read error.
ReaderOnLoadEnd(r, ok) ==
    /\ r \in reads
    /\ reads' = reads \ {r}
    /\ LET base64String == IF ok THEN DataURL(r.file) ELSE Null IN
       /\ selectedFile' = base64String
       /\ preview' = base64String
       /\ lastLoaded' = IF ok THEN base64String ELSE lastLoaded
    /\ UNCHANGED <<pfName, pfEmail, initialData, data, mutation, updates,
                   serverProfile, selections, lastSelected>>
    /\ UNCHANGED <<errorVars, successVars>>
    /\ UNCHANGED <<signInVars, routerVars>>

\* The user submits: handleSubmit(onSubmit) validates, onSubmit calls
\* mutate(...), and mutationFn sends updateUserProfile (lines 86-113).
SubmitProfile ==
    /\ ~ProfileSubmitDisabled
    /\ FieldsValid
    /\ Len(updates) < MaxUpdates
    /\ LET request == [id |-> UserId, name |-> pfName, email |-> pfEmail,
                       profilePicture |-> Or(selectedFile, Undefined)] IN
       /\ mutation' = [status |-> "pending", request |-> request]
       /\ updates' = Append(updates,
              [request |-> request, initial |-> initialData,
               shown |-> preview, loaded |-> lastLoaded])
    /\ UNCHANGED <<pfName, pfEmail, preview, selectedFile, initialData, data,
                   reads, serverProfile>>
    /\ UNCHANGED <<errorVars, successVars, historyVars>>
    /\ UNCHANGED <<signInVars, routerVars>>

\* The user-profile API applies an update: name and email are replaced, the
\* picture is replaced wholesale when the request carries one.
ApplyUpdate(profile, request) ==
    Profile(request.name, request.email,
            IF request.profilePicture = Undefined THEN profile.profilePicture
            ELSE request.profilePicture)

\* updateUserProfile resolves: onSuccess, lines 94-96.
UpdateSuccess ==
    /\ IsPending
    /\ serverProfile' = ApplyUpdate(serverProfile, mutation.request)
    /\ mutation' = NoMutation
    /\ SetSuccess(UpdateSuccessMsg)
    /\ UNCHANGED <<pfName, pfEmail, preview, selectedFile, initialData, data,
                   reads, updates>>
    /\ UNCHANGED <<errorVars, historyVars>>
    /\ UNCHANGED <<signInVars, routerVars>>

\* updateUserProfile rejects: onError, lines 97-99.
UpdateError ==
    /\ IsPending
    /\ mutation' = NoMutation
    /\ SetError(UpdateFailedMsg)
    /\ UNCHANGED <<pfName, pfEmail, preview, selectedFile, initialData, data,
                   reads, updates, serverProfile>>
    /\ UNCHANGED <<successVars, historyVars>>
    /\ UNCHANGED <<signInVars, routerVars>>

\* <PopUpError onClose={() => setError(null)} />
CloseProfileError ==
    /\ Truthy(pfError)
    /\ SetError(Null)
    /\ UNCHANGED <<pfName, pfEmail, preview, selectedFile, initialData, data,
                   reads, mutation, updates, serverProfile>>
    /\ UNCHANGED <<successVars, historyVars>>
    /\ UNCHANGED <<signInVars, routerVars>>

\* <PopUpSuccess onClose={() => setSuccess(null)} />
CloseProfileSuccess ==
    /\ Truthy(pfSuccess)
    /\ SetSuccess(Null)
    /\ UNCHANGED <<pfName, pfEmail, preview, selectedFile, initialData, data,
                   reads, mutation, updates, serverProfile>>
    /\ UNCHANGED <<errorVars, historyVars>>
    /\ UNCHANGED <<signInVars, routerVars>>

Due(timer) == timer # NoTimer /\ timer >= DismissMs

Advance(timer) == IF timer = NoTimer THEN NoTimer ELSE timer + TickMs

Shown(msg, ms) ==
    IF ~Truthy(msg) THEN 0
    ELSE IF ms + TickMs > DismissMs THEN DismissMs ELSE ms + TickMs

\* Time passes (TickMs) while a timer runs and none is due.
Tick ==
    /\ errorTimer # NoTimer \/ successTimer # NoTimer
    /\ ~Due(errorTimer) /\ ~Due(successTimer)
    /\ errorTimer' = Advance(errorTimer)
    /\ successTimer' = Advance(successTimer)
    /\ errorShownMs' = Shown(pfError, errorShownMs)
    /\ UNCHANGED <<pfName, pfEmail, preview, selectedFile, initialData, data,
                   reads, mutation, updates, serverProfile, pfError, pfSuccess>>
    /\ UNCHANGED historyVars
    /\ UNCHANGED <<signInVars, routerVars>>

\* setTimeout(() => setError(null), 5000) fires.
ErrorTimerFires ==
    /\ Due(errorTimer)
    /\ pfError' = Null
    /\ errorTimer' = NoTimer
    /\ errorShownMs' = 0
    /\ UNCHANGED <<pfName, pfEmail, preview, selectedFile, initialData, data,
                   reads, mutation, updates, serverProfile>>
    /\ UNCHANGED <<successVars, historyVars>>
    /\ UNCHANGED <<signInVars, routerVars>>

\* setTimeout(() => setSuccess(null), 5000) fires.
SuccessTimerFires ==
    /\ Due(successTimer)
    /\ pfSuccess' = Null
    /\ successTimer' = NoTimer
    /\ UNCHANGED <<pfName, pfEmail, preview, selectedFile, initialData, data,
                   reads, mutation, updates, serverProfile>>
    /\ UNCHANGED <<errorVars, historyVars>>
    /\ UNCHANGED <<signInVars, routerVars>>

\* The profiles the API can hold when the form mounts.
InitialProfiles ==
    {Profile("Ann", "ann@x.io", pic) : pic \in {Undefined, ServerUrlPic}}

ProfileInit ==
    /\ pfName = ""
    /\ pfEmail = ""
    /\ preview = Placeholder
    /\ selectedFile = Null
    /\ pfError = Null
    /\ pfSuccess = Null
    /\ initialData = Null
    /\ data = Undefined
    /\ reads = {}
    /\ mutation = NoMutation
    /\ updates = <<>>
    /\ serverProfile \in InitialProfiles
    /\ errorTimer = NoTimer
    /\ successTimer = NoTimer
    /\ errorShownMs = 0
    /\ selections = 0
    /\ lastSelected = Null
    /\ lastLoaded = Null

ProfileNext ==
    \/ FetchProfile
    \/ \E n \in Names : EditName(n)
    \/ \E e \in Emails : EditEmail(e)
    \/ \E f \in Files : HandleImageChange(f)
    \/ \E r \in reads, ok \in BOOLEAN : ReaderOnLoadEnd(r, ok)
    \/ SubmitProfile
    \/ UpdateSuccess
    \/ UpdateError
    \/ Tick
    \/ ErrorTimerFires
    \/ SuccessTimerFires
    \/ CloseProfileError
    \/ CloseProfileSuccess

(***************************************************************************)
(* Specifications: one per component.                                      *)
(***************************************************************************)
Init == SignInInit /\ RouterInit /\ ProfileInit

\* The profile form before anything happened, over one stored profile.
ProfileIdle == ProfileInit /\ serverProfile = Profile("Ann", "ann@x.io", Undefined)

\* The initial state of the sign-in form and of the router.
InitOneProfile == SignInInit /\ RouterInit /\ ProfileIdle

SignInSpec  == InitOneProfile /\ [][SignInNext]_vars
RouterSpec  == InitOneProfile /\ [][RouterNextStep]_vars
ProfileSpec == Init /\ [][ProfileNext]_vars

(***************************************************************************)
(* Claims about the profile form.                                          *)
(***************************************************************************)
\* 5MB, as mebibytes and as decimal megabytes.
FiveMiB       == 5 * 1024 * 1024
FiveMBDecimal == 5 * 1000 * 1000

\* The step is a selection of file f.
Selects(f) == selections' = selections + 1 /\ lastSelected' = f

OversizeRejected(limit) ==
    /\ \A f \in Files :
          Selects(f) =>
              IF f.size > limit
                THEN /\ Truthy(pfError')
                     /\ preview' = preview
                     /\ selectedFile' = selectedFile
                     /\ reads' = reads
                ELSE \E r \in reads' \ reads : r.file = f
    /\ \A r \in reads :
          r \notin reads' => (preview' = DataURL(r.file) /\ selectedFile' = DataURL(r.file))
    /\ \A k \in 1..Len(updates') :
          updates'[k].request.profilePicture # Undefined
              => updates'[k].request.profilePicture.bytes <= limit

\* C4: selecting an image file larger than 5MB sets an error message, leaves
\* preview and selectedFile unchanged and starts no read; selecting a file of
\* at most 5MB starts a read that, on completion, sets preview and
\* selectedFile to the file's data URI; no update request carries a picture
\* from a file over the cap.  (5MB read as 5 MiB.)
C4_Original_OversizeRejected == [][OversizeRejected(FiveMiB)]_vars

\* The same statement with 5MB read as 5,000,000 bytes.
C4_Original_OversizeRejectedDecimal == [][OversizeRejected(FiveMBDecimal)]_vars

\* The picture pending submission differs from the fetched one.
PictureChanged ==
    /\ selectedFile # Null
    /\ selectedFile # initialData.profilePicture

\* C5: in every reachable state the submit button is disabled whenever the
\* profile has not been fetched yet or the current name, email and picture
\* are all unchanged from the last fetched profile; an update request is only
\* ever sent when at least one field differs from the last fetched state.
C5_Original_DisabledWhenUnchanged ==
    /\ ( \/ data = Undefined
         \/ initialData = Null
         \/ ( /\ pfName = initialData.name
              /\ pfEmail = initialData.email
              /\ ~PictureChanged ) )
          => ProfileSubmitDisabled
    /\ \A k \in 1..Len(updates) :
          LET u == updates[k] IN
          /\ u.initial # Null
          /\ \/ u.request.name # u.initial.name
             \/ u.request.email # u.initial.email
             \/ ( /\ u.request.profilePicture # Undefined
                  /\ u.request.profilePicture # u.initial.profilePicture )

\* C6: an error message stays for the 5s of its auto-dismiss timer unless the
\* user closes it: a newly set message restarts the timer, so the timer never
\* clears a message less than 5s after it was set.
C6_Original_TimerRestarts ==
    [][ErrorTimerFires => errorShownMs >= DismissMs]_vars

\* C8: each update request carries the picture as a whole: the data URI of
\* the most recently loaded image if one was loaded since the form mounted,
\* and no picture field (undefined) otherwise.
C8_Original_PictureWholesale ==
    \A k \in 1..Len(updates) :
        updates[k].request.profilePicture =
            (IF updates[k].loaded = Null THEN Undefined ELSE updates[k].loaded)

\* C10: whenever a picture is pending (selectedFile is not null), preview
\* equals selectedFile and it is the image of the file the user selected
\* last.  Read in the claim's favour: states with a read still running and
\* selections rejected for their size are left aside.
C10_Original_SubmittedIsShown ==
    (selectedFile # Null /\ reads = {}) =>
        /\ preview = selectedFile
        /\ lastSelected # Null
        /\ TooBig(lastSelected) \/ selectedFile = DataURL(lastSelected)

====
